---- MODULE Spec2Model ----
(***************************************************************************)
(* A model of ci/get_hdf5.py: one run of main(), from reading the          *)
(* environment to process exit.  Strings are TLA+ strings; None is a       *)
(* distinguished value no environment variable takes.  External tools,     *)
(* the HTTP server and the archive are black boxes whose outcome is chosen *)
(* nondeterministically where the code consults it.                        *)
(***************************************************************************)
EXTENDS Integers, Sequences, FiniteSets, TLC

VARIABLES
    environ,          \* os.environ, restricted to the five variables read
    platform,         \* sys.platform
    fs,               \* [dirs, files]: the paths that exist on disk
    install_path, version, vs_version, use_prefix, with_mpi,   \* main's locals
    cmake_generator,  \* main's local
    pc,               \* position in main / build_hdf5
    url,              \* download_hdf5's local `file`
    status_code,      \* r.status_code of the download response, 0 before it
    cfg_cmd, build_cmds, cmd_idx,    \* build_hdf5's locals and loop position
    cwd, old_dir,     \* process working directory, build_hdf5's saved copy
    tmp,              \* the three scoped temporaries
    steps,            \* history: the phases entered, in order
    procs,            \* history: every external process started
    stderr, stdout,   \* what was printed
    exc,              \* the exception that ended the run, or None
    exit_status       \* "running", "0" or "1"

vars == <<environ, platform, fs, install_path, version, vs_version, use_prefix,
          with_mpi, cmake_generator, pc, url, status_code, cfg_cmd, build_cmds, cmd_idx,
          cwd, old_dir, tmp, steps, procs, stderr, stdout, exc, exit_status>>

None == "<None>"

-----------------------------------------------------------------------------
(* Bounds of the model *)

MaxVersionLen == 6

VersionAlphabet == {"1", "0", ".", "8"}

-----------------------------------------------------------------------------
(* String helpers: str.startswith, str.split, slicing, ' '.join *)

StartsWith(s, p) == Len(s) >= Len(p) /\ SubSeq(s, 1, Len(p)) = p

EndsWith(s, p) == Len(s) >= Len(p) /\ SubSeq(s, Len(s) - Len(p) + 1, Len(s)) = p

RECURSIVE Split(_, _)
Split(s, sep) ==
    IF Len(s) = 0 THEN <<"">>
    ELSE LET c    == SubSeq(s, 1, 1)
             rest == Split(SubSeq(s, 2, Len(s)), sep)
         IN  IF c = sep THEN <<"">> \o rest
             ELSE <<c \o Head(rest)>> \o Tail(rest)

Take(seq, n) == SubSeq(seq, 1, IF Len(seq) < n THEN Len(seq) ELSE n)

RECURSIVE Join(_, _)
Join(seq, sep) ==
    IF Len(seq) = 0 THEN ""
    ELSE IF Len(seq) = 1 THEN Head(seq)
    ELSE Head(seq) \o sep \o Join(Tail(seq), sep)

RECURSIVE Strings(_)
Strings(n) ==
    IF n = 0 THEN {""}
    ELSE LET shorter == Strings(n - 1)
         IN  shorter \cup {s \o c : s \in shorter, c \in VersionAlphabet}

pjoin(a, b) == a \o "/" \o b

basename(p) == LET parts == Split(p, "/") IN parts[Len(parts)]

-----------------------------------------------------------------------------
(* Module-level constants of get_hdf5.py *)

IsWin(plat) == StartsWith(plat, "win")

HDF5_18_URL(v) ==
    "https://www.hdfgroup.org/ftp/HDF5/releases/hdf5-1.8/hdf5-" \o v \o "/src/"

HDF5_110_URL(v) ==
    "https://www.hdfgroup.org/ftp/HDF5/releases/hdf5-1.10/hdf5-" \o v \o "/src/"

HDF5_18_FILE(plat, v) ==
    IF IsWin(plat) THEN HDF5_18_URL(v) \o "hdf5-" \o v \o ".zip"
    ELSE HDF5_18_URL(v) \o "hdf5-" \o v \o ".gzip"

HDF5_110_FILE(plat, v) ==
    IF IsWin(plat) THEN HDF5_110_URL(v) \o "hdf5-" \o v \o ".zip"
    ELSE HDF5_110_URL(v) \o "hdf5-" \o v \o ".tar.gz"

CMAKE_CONFIGURE_CMD ==
    <<"cmake", "-DBUILD_SHARED_LIBS:BOOL=ON", "-DCMAKE_BUILD_TYPE:STRING=RELEASE",
      "-DHDF5_BUILD_CPP_LIB=OFF", "-DHDF5_BUILD_HL_LIB=ON",
      "-DHDF5_BUILD_TOOLS:BOOL=ON">>

CMAKE_BUILD_CMD == <<"cmake", "--build">>

CMAKE_INSTALL_ARG == <<"--target", "install", "--config", "Release">>

CMAKE_INSTALL_PATH_ARG(p) == "-DCMAKE_INSTALL_PREFIX=" \o p

CMAKE_HDF5_LIBRARY_PREFIX == <<"-DHDF5_EXTERNAL_LIB_PREFIX=h5py_">>

REL_PATH_TO_UNPACKED_DIR(v) == "hdf5-" \o v

DEFAULT_VERSION == "1.8.17"

VSVERSION_TO_GENERATOR ==
    [k \in {"9", "10", "14", "9-64", "10-64", "14-64"} |->
        CASE k = "9"     -> "Visual Studio 9 2008"
          [] k = "10"    -> "Visual Studio 10 2010"
          [] k = "14"    -> "Visual Studio 14 2015"
          [] k = "9-64"  -> "Visual Studio 9 2008 Win64"
          [] k = "10-64" -> "Visual Studio 10 2010 Win64"
          [] k = "14-64" -> "Visual Studio 14 2015 Win64"]

SETUP_X64_BAT == <<"ci\\appveyor\\vs2008_patch\\setup_x64.bat">>

-----------------------------------------------------------------------------
(* The environment a run can start in *)

Platforms == {"win32", "linux", "darwin", "cygwin"}

EnvDirs == {None, "/tmp/out"}

EnvVersions == {None, "1.10.2", "1.8.18"}

EnvVsVersions == {None, "9-64", "14-64", "15"}

EnvPrefix == {None, "1"}

EnvMpi == {None, "ON", "OFF"}

StartDir == "/repo"

ExtractDir == "/tmp/tmpextract"

WorkDir == "/tmp/tmpwork"

NoTmp == [f |-> "none", hdf5_extract_path |-> "none", cmake_work_dir |-> "none"]

EmptyFs == [dirs |-> {}, files |-> {}]

(* What can be on disk under the install directory when the run starts:    *)
(* nothing, an empty directory, a finished install, a bin-only install.    *)
InitialFs(d) ==
    IF d = None THEN {EmptyFs}
    ELSE { EmptyFs,
           [dirs |-> {d}, files |-> {}],
           [dirs |-> {d, pjoin(d, "lib")},
            files |-> {pjoin(pjoin(d, "lib"), "hdf5.dll")}],
           [dirs |-> {d, pjoin(d, "bin"), pjoin(d, "lib")},
            files |-> {pjoin(pjoin(d, "bin"), "hdf5.dll"),
                       pjoin(pjoin(d, "bin"), "h5dump.exe")}] }

-----------------------------------------------------------------------------
(* Pure functions of get_hdf5.py *)

(* The selection had it tested version.startswith("1.10") instead *)
download_url_prefix(plat, v) ==
    IF StartsWith(v, "1.10") THEN HDF5_110_FILE(plat, v) ELSE HDF5_18_FILE(plat, v)

(* download_hdf5, lines 48-51 *)
download_url(plat, v) ==
    IF Take(Split(v, "."), 2) = <<"1", "10">> THEN HDF5_110_FILE(plat, v)
    ELSE HDF5_18_FILE(plat, v)

(* A response whose status is never examined *)
raise_for_status_never(status) == FALSE

(* r.raise_for_status() raises HTTPError on 4xx and 5xx *)
raise_for_status(status) == status >= 400 /\ status < 600

build_system_of(plat) == IF IsWin(plat) THEN "cmake" ELSE "autotools"

get_unpacked_path(v, extract_point) ==
    pjoin(extract_point, REL_PATH_TO_UNPACKED_DIR(v))

get_cmake_install_path(p) ==
    IF p # None THEN CMAKE_INSTALL_PATH_ARG(p) ELSE " "

get_autotools_cmds(p, mpi) ==
    LET parallel_args == IF mpi THEN <<"--enable-parallel">> ELSE <<>>
    IN  [cfg_cmd    |-> <<"./configure", "--prefix", p>> \o parallel_args,
         build_cmds |-> << <<"make">>, <<"make", "install">> >>]

get_cmake_cmds(v, p, generator, prefix, extract_path) ==
    LET generator_args == IF generator # None THEN <<"-G", generator>> ELSE <<>>
        prefix_args    == IF prefix THEN CMAKE_HDF5_LIBRARY_PREFIX ELSE <<>>
    IN  [cfg_cmd    |-> CMAKE_CONFIGURE_CMD
                        \o <<get_cmake_install_path(p), get_unpacked_path(v, extract_path)>>
                        \o generator_args \o prefix_args,
         build_cmds |-> << CMAKE_BUILD_CMD \o <<".">> \o CMAKE_INSTALL_ARG >>]

(* def get_cmake_cmds declares five required parameters *)
get_cmake_cmds_params == 5

(* build_hdf5 calls it with these positional arguments *)
get_cmake_cmds_call == <<version, install_path, cmake_generator, use_prefix>>

exists(p) == p \in fs.dirs \cup fs.files

(* os.path.join raises TypeError on a None component *)
pjoin_raises(a) == a = None

(* A cache check that never finds the artifact *)
hdf5_cached_never(p) == FALSE

hdf5_cached(p) == exists(pjoin(pjoin(p, "lib"), "hdf5.dll"))

(* A lookup by dict.get, which raises nothing *)
lookup_raises_never(vs) == FALSE

(* VSVERSION_TO_GENERATOR[vs_version] raises KeyError on a missing key *)
lookup_raises(vs) == vs \notin DOMAIN VSVERSION_TO_GENERATOR

generator_of(vs) ==
    IF vs \in DOMAIN VSVERSION_TO_GENERATOR THEN VSVERSION_TO_GENERATOR[vs] ELSE None

(* The setup script run for every 64-bit token *)
needs_setup_x64_any64(vs) == EndsWith(vs, "-64")

needs_setup_x64(vs) == vs = "9-64"

(* glob(pjoin(install_path, 'bin/*.dll')) *)
glob_bin_dlls(p) ==
    {f \in fs.files : /\ StartsWith(f, pjoin(p, "bin") \o "/")
                      /\ EndsWith(f, ".dll")
                      /\ Len(Split(f, "/")) = Len(Split(pjoin(p, "bin"), "/")) + 1}

(* shutil.copy(f, dst): into dst when dst is a directory, else to the file dst *)
copy(f, dst) == IF dst \in fs.dirs THEN pjoin(dst, basename(f)) ELSE dst

(* os.walk(install_path): every file below it *)
walk_files(p) == {f \in fs.files : StartsWith(f, p \o "/")}

-----------------------------------------------------------------------------
(* subprocess.run *)

(* Outcomes of starting a process: exit status 0, a non-zero exit status,  *)
(* or the program cannot be started (OSError).  With shell=True the shell  *)
(* itself always starts.                                                   *)
RunOutcomes(shell) == IF shell THEN {"zero", "nonzero"} ELSE {"zero", "nonzero", "oserror"}

(* The argument vector Popen executes *)
popen_argv(args, shell, plat) ==
    IF ~shell THEN args
    ELSE IF IsWin(plat) THEN <<"cmd.exe", "/c", Join(args, " ")>>
    ELSE <<"/bin/sh", "-c">> \o args

(* The command line that actually runs: `sh -c` takes its third argument   *)
(* as the command string and the following ones as $0, $1, ...             *)
command_line(args, shell, plat) ==
    IF shell /\ ~IsWin(plat) THEN popen_argv(args, shell, plat)[3]
    ELSE Join(args, " ")

Proc(args, shell, dir, rc) ==
    [args |-> args, shell |-> shell, cwd |-> dir,
     argv |-> popen_argv(args, shell, platform),
     command |-> command_line(args, shell, platform), rc |-> rc]

(* CompletedProcess.check_returncode raises CalledProcessError *)
check_returncode(rc) == rc = "nonzero"

-----------------------------------------------------------------------------
(* Leaving a `with` block: the temporaries still alive are removed *)

(* Temporaries left behind when the block is exited *)
Cleanup_leak(t) == t

Cleanup(t) == [k \in DOMAIN t |-> IF t[k] = "live" THEN "removed" ELSE t[k]]

(* An exception (or SystemExit) propagates out of main: every enclosing    *)
(* `with` block is left, the interpreter exits with status 1.              *)
Unwind(e, t) ==
    /\ pc' = "exited"
    /\ exc' = e
    /\ exit_status' = "1"
    /\ tmp' = Cleanup(t)

-----------------------------------------------------------------------------
(* The run *)

env_vars == <<environ, platform>>

locals == <<install_path, version, vs_version, use_prefix, with_mpi>>

build_locals == <<cfg_cmd, build_cmds, cmd_idx>>

HttpStatuses == {200, 404, 500}

Init ==
    /\ platform \in Platforms
    /\ environ \in [HDF5_DIR : EnvDirs, HDF5_VERSION : EnvVersions,
                    HDF5_VSVERSION : EnvVsVersions, H5PY_USE_PREFIX : EnvPrefix,
                    HDF5_MPI : EnvMpi]
    /\ fs \in InitialFs(environ.HDF5_DIR)
    /\ install_path = None /\ version = None /\ vs_version = None
    /\ use_prefix = FALSE /\ with_mpi = FALSE
    /\ cmake_generator = None
    /\ pc = "start"
    /\ url = None /\ status_code = 0
    /\ cfg_cmd = <<>> /\ build_cmds = <<>> /\ cmd_idx = 0
    /\ cwd = StartDir /\ old_dir = None
    /\ tmp = NoTmp
    /\ steps = <<>> /\ procs = <<>>
    /\ stderr = <<>> /\ stdout = {}
    /\ exc = None /\ exit_status = "running"

(* main, lines 174-178 *)
ReadEnviron ==
    /\ pc = "start"
    /\ install_path' = environ.HDF5_DIR
    /\ version' = IF environ.HDF5_VERSION = None THEN DEFAULT_VERSION
                  ELSE environ.HDF5_VERSION
    /\ vs_version' = environ.HDF5_VSVERSION
    /\ use_prefix' = (environ.H5PY_USE_PREFIX # None)
    /\ with_mpi' = (environ.HDF5_MPI = "ON")
    /\ steps' = Append(steps, "resolve")
    /\ pc' = "makedirs"
    /\ UNCHANGED <<env_vars, fs, cmake_generator, url, status_code, build_locals,
                   cwd, old_dir, tmp, procs, stderr, stdout, exc, exit_status>>

(* main, lines 180-182 *)
MakeInstallDir ==
    /\ pc = "makedirs"
    /\ fs' = IF install_path # None /\ ~exists(install_path)
             THEN [fs EXCEPT !.dirs = @ \cup {install_path}]
             ELSE fs
    /\ pc' = "generator"
    /\ UNCHANGED <<env_vars, locals, cmake_generator, url, status_code, build_locals,
                   cwd, old_dir, tmp, steps, procs, stderr, stdout, exc, exit_status>>

(* main, lines 183-185 and 189-190 *)
LookupGenerator ==
    /\ pc = "generator"
    /\ IF vs_version # None
       THEN IF lookup_raises(vs_version)
            THEN /\ Unwind("KeyError", tmp)
                 /\ UNCHANGED cmake_generator
            ELSE /\ cmake_generator' = generator_of(vs_version)
                 /\ pc' = IF needs_setup_x64(vs_version) THEN "setup_x64"
                          ELSE "check_cache"
                 /\ UNCHANGED <<tmp, exc, exit_status>>
       ELSE /\ cmake_generator' = None
            /\ pc' = "check_cache"
            /\ UNCHANGED <<tmp, exc, exit_status>>
    /\ UNCHANGED <<env_vars, locals, fs, url, status_code, build_locals,
                   cwd, old_dir, steps, procs, stderr, stdout>>

(* main, line 188: the CompletedProcess is discarded, its returncode unread *)
RunSetupX64 ==
    /\ pc = "setup_x64"
    /\ \E rc \in RunOutcomes(FALSE) :
        /\ procs' = Append(procs, Proc(SETUP_X64_BAT, FALSE, cwd, rc))
        /\ IF rc = "oserror"
           THEN Unwind("FileNotFoundError", tmp)
           ELSE /\ pc' = "check_cache"
                /\ UNCHANGED <<tmp, exc, exit_status>>
    /\ UNCHANGED <<env_vars, locals, fs, cmake_generator, url, status_code,
                   build_locals, cwd, old_dir, steps, stderr, stdout>>

(* main, lines 192 and 197-198; hdf5_cached, lines 167-170 *)
CheckCache ==
    /\ pc = "check_cache"
    /\ steps' = Append(steps, "cache_check")
    /\ IF pjoin_raises(install_path)
       THEN /\ Unwind("TypeError", tmp)
            /\ UNCHANGED stderr
       ELSE /\ IF hdf5_cached(install_path)
               THEN /\ stderr' = Append(stderr, "using cached hdf5")
                    /\ pc' = "report"
               ELSE /\ pc' = "download"
                    /\ UNCHANGED stderr
            /\ UNCHANGED <<tmp, exc, exit_status>>
    /\ UNCHANGED <<env_vars, locals, fs, cmake_generator, url, status_code,
                   build_locals, cwd, old_dir, procs, stdout>>

(* main, lines 193-195; download_hdf5, lines 47-62 *)
Download ==
    /\ pc = "download"
    /\ steps' = Append(steps, "download")
    /\ url' = download_url(platform, version)
    /\ LET opened == [tmp EXCEPT !.f = "live"]
           announced == Append(stderr, "Downloading " \o url')
       IN  \/ \* requests.get itself raises: no response, nothing catches it
              /\ Unwind("ConnectionError", opened)
              /\ stderr' = announced
              /\ UNCHANGED status_code
           \/ \E st \in HttpStatuses :
                /\ status_code' = st
                /\ IF raise_for_status(st)
                   THEN /\ stderr' = Append(announced,
                               "Failed to download hdf5 version " \o version \o ", exiting")
                        /\ Unwind("SystemExit", opened)
                   ELSE /\ stderr' = announced
                        /\ tmp' = opened
                        /\ pc' = "extract"
                        /\ UNCHANGED <<exc, exit_status>>
    /\ UNCHANGED <<env_vars, locals, fs, cmake_generator, build_locals,
                   cwd, old_dir, procs, stdout>>

(* build_hdf5, lines 73-80: the archive may not be one the reader accepts *)
Extract ==
    /\ pc = "extract"
    /\ steps' = Append(steps, IF IsWin(platform) THEN "extract_zip" ELSE "extract_targz")
    /\ LET made == [tmp EXCEPT !.hdf5_extract_path = "live"]
       IN  \E good \in BOOLEAN :
             IF good
             THEN /\ tmp' = made
                  /\ pc' = "get_cmds"
                  /\ UNCHANGED <<exc, exit_status>>
             ELSE Unwind(IF IsWin(platform) THEN "BadZipFile" ELSE "ReadError", made)
    /\ UNCHANGED <<env_vars, locals, fs, cmake_generator, url, status_code,
                   build_locals, cwd, old_dir, procs, stderr, stdout>>

(* build_hdf5, lines 68-71 and 82-89 *)
GetCmds ==
    /\ pc = "get_cmds"
    /\ steps' = Append(steps, "build")
    /\ IF build_system_of(platform) = "cmake"
       THEN IF Len(get_cmake_cmds_call) # get_cmake_cmds_params
            THEN /\ Unwind("TypeError", tmp)
                 /\ UNCHANGED <<cfg_cmd, build_cmds>>
            ELSE LET c == get_cmake_cmds(get_cmake_cmds_call[1], get_cmake_cmds_call[2],
                                         get_cmake_cmds_call[3], get_cmake_cmds_call[4],
                                         get_cmake_cmds_call[5])
                 IN  /\ cfg_cmd' = c.cfg_cmd
                     /\ build_cmds' = c.build_cmds
                     /\ pc' = "enter"
                     /\ UNCHANGED <<tmp, exc, exit_status>>
       ELSE LET c == get_autotools_cmds(install_path, with_mpi)
            IN  /\ cfg_cmd' = c.cfg_cmd
                /\ build_cmds' = c.build_cmds
                /\ pc' = "enter"
                /\ UNCHANGED <<tmp, exc, exit_status>>
    /\ UNCHANGED <<env_vars, locals, fs, cmake_generator, url, status_code, cmd_idx,
                   cwd, old_dir, procs, stderr, stdout>>

(* build_hdf5, lines 91-97 *)
EnterWorkDir ==
    /\ pc = "enter"
    /\ old_dir' = cwd
    /\ tmp' = [tmp EXCEPT !.cmake_work_dir = "live"]
    /\ IF build_system_of(platform) = "cmake"
       THEN /\ cwd' = WorkDir
            /\ pc' = "configure"
       ELSE /\ cwd' = get_unpacked_path(version, ExtractDir)
            /\ pc' = "chmod"
    /\ UNCHANGED <<env_vars, locals, fs, cmake_generator, url, status_code,
                   build_locals, steps, procs, stderr, stdout, exc, exit_status>>

(* A checked run: p = run(args ...); p.check_returncode() *)
CheckedRun(args, shell, next) ==
    \E rc \in RunOutcomes(shell) :
        /\ procs' = Append(procs, Proc(args, shell, cwd, rc))
        /\ IF rc = "oserror" THEN Unwind("FileNotFoundError", tmp)
           ELSE IF check_returncode(rc) THEN Unwind("CalledProcessError", tmp)
           ELSE /\ pc' = next
                /\ UNCHANGED <<tmp, exc, exit_status>>

(* build_hdf5, lines 98-99 *)
Chmod ==
    /\ pc = "chmod"
    /\ CheckedRun(<<"chmod", "+x", "autogen.sh">>, FALSE, "autogen")
    /\ UNCHANGED <<env_vars, locals, fs, cmake_generator, url, status_code,
                   build_locals, cwd, old_dir, steps, stderr, stdout>>

(* build_hdf5, lines 100-101 *)
Autogen ==
    /\ pc = "autogen"
    /\ CheckedRun(<<"./autogen.sh">>, FALSE, "configure")
    /\ UNCHANGED <<env_vars, locals, fs, cmake_generator, url, status_code,
                   build_locals, cwd, old_dir, steps, stderr, stdout>>

(* build_hdf5, lines 105-110 *)
Configure ==
    /\ pc = "configure"
    /\ CheckedRun(cfg_cmd, FALSE, "build")
    /\ stderr' = LET s1 == Append(stderr, "Configuring HDF5 version " \o version \o "...")
                     s2 == Append(s1, Join(cfg_cmd, " "))
                 IN  IF pc' = "build"
                     THEN Append(s2, "Building HDF5 version " \o version \o "...")
                     ELSE s2
    /\ cmd_idx' = 1
    /\ UNCHANGED <<env_vars, locals, fs, cmake_generator, url, status_code,
                   cfg_cmd, build_cmds, cwd, old_dir, steps, stdout>>

(* build_hdf5, lines 111-116: one iteration of the loop over build_cmds *)
BuildCmd ==
    /\ pc = "build"
    /\ cmd_idx <= Len(build_cmds)
    /\ CheckedRun(build_cmds[cmd_idx], TRUE, "build")
    /\ stderr' = Append(stderr, Join(build_cmds[cmd_idx], " "))
    /\ cmd_idx' = cmd_idx + 1
    /\ UNCHANGED <<env_vars, locals, fs, cmake_generator, url, status_code,
                   cfg_cmd, build_cmds, cwd, old_dir, steps, stdout>>

(* build_hdf5, lines 117-126, and leaving main's `with TemporaryFile` *)
FinishBuild ==
    /\ pc = "build"
    /\ cmd_idx > Len(build_cmds)
    /\ cwd' = old_dir
    /\ LET installed == Append(stderr, "Installed HDF5 version " \o version
                                        \o " to " \o install_path)
       IN  IF IsWin(platform)
           THEN IF pjoin_raises(install_path)
                THEN /\ stderr' = Append(installed, "Copying HDF5 dlls")
                     /\ Unwind("TypeError", tmp)
                     /\ UNCHANGED <<fs, steps>>
                ELSE /\ stderr' = Append(installed, "Copying HDF5 dlls")
                     /\ steps' = Append(steps, "fixup")
                     /\ fs' = [fs EXCEPT !.files = @ \cup
                                 {copy(f, pjoin(install_path, "lib")) :
                                      f \in glob_bin_dlls(install_path)}]
                     /\ tmp' = Cleanup(tmp)
                     /\ pc' = "report"
                     /\ UNCHANGED <<exc, exit_status>>
           ELSE /\ stderr' = installed
                /\ tmp' = Cleanup(tmp)
                /\ pc' = "report"
                /\ UNCHANGED <<fs, steps, exc, exit_status>>
    /\ UNCHANGED <<env_vars, locals, cmake_generator, url, status_code,
                   build_locals, old_dir, procs, stdout>>

(* main, lines 199-203, and normal interpreter exit *)
Report ==
    /\ pc = "report"
    /\ IF install_path # None
       THEN /\ steps' = Append(steps, "report")
            /\ stderr' = Append(stderr, "hdf5 files: ")
            /\ stdout' = {" * " \o f : f \in walk_files(install_path)}
       ELSE UNCHANGED <<steps, stderr, stdout>>
    /\ pc' = "exited"
    /\ exit_status' = "0"
    /\ UNCHANGED <<env_vars, locals, fs, cmake_generator, url, status_code,
                   build_locals, cwd, old_dir, tmp, procs, exc>>

Next ==
    \/ ReadEnviron
    \/ MakeInstallDir
    \/ LookupGenerator
    \/ RunSetupX64
    \/ CheckCache
    \/ Download
    \/ Extract
    \/ GetCmds
    \/ EnterWorkDir
    \/ Chmod
    \/ Autogen
    \/ Configure
    \/ BuildCmd
    \/ FinishBuild
    \/ Report

Spec == Init /\ [][Next]_vars

-----------------------------------------------------------------------------
(* URL selection over every short version string: the same run, started    *)
(* with HDF5_VERSION drawn from all strings over VersionAlphabet.          *)

InitURL ==
    /\ platform \in Platforms
    /\ environ \in [HDF5_DIR : {"/tmp/out"}, HDF5_VERSION : Strings(MaxVersionLen),
                    HDF5_VSVERSION : {None}, H5PY_USE_PREFIX : {None},
                    HDF5_MPI : {None}]
    /\ fs = EmptyFs
    /\ install_path = None /\ version = None /\ vs_version = None
    /\ use_prefix = FALSE /\ with_mpi = FALSE
    /\ cmake_generator = None
    /\ pc = "start"
    /\ url = None /\ status_code = 0
    /\ cfg_cmd = <<>> /\ build_cmds = <<>> /\ cmd_idx = 0
    /\ cwd = StartDir /\ old_dir = None
    /\ tmp = NoTmp
    /\ steps = <<>> /\ procs = <<>>
    /\ stderr = <<>> /\ stdout = {}
    /\ exc = None /\ exit_status = "running"

NextURL ==
    \/ ReadEnviron
    \/ MakeInstallDir
    \/ LookupGenerator
    \/ CheckCache
    \/ Download

SpecURL == InitURL /\ [][NextURL]_vars

-----------------------------------------------------------------------------
(* Vocabulary of the properties *)

Range(seq) == {seq[i] : i \in 1..Len(seq)}

ExtractSteps == {"extract_zip", "extract_targz"}

Rank(step) ==
    CASE step = "resolve"      -> 1
      [] step = "cache_check"  -> 2
      [] step = "download"     -> 3
      [] step \in ExtractSteps -> 4
      [] step = "build"        -> 5
      [] step = "fixup"        -> 6
      [] step = "report"       -> 7

(* The artifact the cache check looks for is on disk *)
ArtifactPresent ==
    /\ environ.HDF5_DIR # None
    /\ (environ.HDF5_DIR \o "/lib/hdf5.dll") \in fs.files

(* The processes started by build_hdf5 (all but the x64 setup script) *)
BuildProcs == SelectSeq(procs, LAMBDA p : p.args # SETUP_X64_BAT)

Commands(ps) == [i \in 1..Len(ps) |-> ps[i].command]

(* Exceptions that come from an external collaborator failing *)
ExternalFailures ==
    {"ConnectionError", "SystemExit", "BadZipFile", "ReadError",
     "FileNotFoundError", "CalledProcessError"}

In110Tree(u) == StartsWith(u, "https://www.hdfgroup.org/ftp/HDF5/releases/hdf5-1.10/")

In18Tree(u) == StartsWith(u, "https://www.hdfgroup.org/ftp/HDF5/releases/hdf5-1.8/")

-----------------------------------------------------------------------------
(* C1: whenever an external process of the run (the x64 setup script       *)
(* included) exits non-zero, the run aborts at once: that process is the   *)
(* last one started, no fixup or report step runs, and the run has ended   *)
(* with a non-zero exit status.                                            *)
C1_NonZeroExitAborts ==
    \A i \in 1..Len(procs) :
        procs[i].rc = "nonzero" =>
            /\ i = Len(procs)
            /\ pc = "exited" /\ exit_status = "1"
            /\ "fixup" \notin Range(steps) /\ "report" \notin Range(steps)

(* C2: an HTTP error status on the download ends the process with status 1 *)
(* after the version-specific diagnostic; no extraction, build command,    *)
(* fixup or report happens and the download is attempted exactly once.     *)
C2_HttpErrorExits ==
    status_code >= 400 =>
        /\ pc = "exited" /\ exit_status = "1" /\ exc = "SystemExit"
        /\ stderr[Len(stderr)] = "Failed to download hdf5 version " \o version \o ", exiting"
        /\ Range(steps) \cap (ExtractSteps \cup {"build", "fixup", "report"}) = {}
        /\ Len(SelectSeq(steps, LAMBDA st : st = "download")) = 1
        /\ BuildProcs = <<>>
        /\ tmp.hdf5_extract_path = "none" /\ tmp.cmake_work_dir = "none"

C2_Witness ==
    /\ status_code = 404
    /\ pc = "exited"
    /\ "download" \in Range(steps)

(* C3: the phases run in the order resolve, cache check, download,         *)
(* extract, build, fixup, report, each at most once and none without its   *)
(* predecessor; download happens only when the cache check is false; on a  *)
(* cache hit the report directly follows the cache check; a report happens *)
(* only with an install path and after a cache hit or a build whose every  *)
(* command succeeded.                                                      *)
C3_LinearRun ==
    LET S == Range(steps)
        hit == ArtifactPresent /\ "fixup" \notin S
    IN  /\ \A i, j \in 1..Len(steps) : i < j => Rank(steps[i]) < Rank(steps[j])
        /\ "cache_check" \in S => "resolve" \in S
        /\ "download" \in S => "cache_check" \in S
        /\ S \cap ExtractSteps # {} => "download" \in S
        /\ "build" \in S => S \cap ExtractSteps # {}
        /\ "fixup" \in S => "build" \in S
        /\ "report" \in S => "cache_check" \in S
        /\ "download" \in S => ~hit
        /\ (hit /\ "cache_check" \in S) =>
              /\ S \subseteq {"resolve", "cache_check", "report"}
              /\ BuildProcs = <<>>
              /\ pc = "exited" => steps = <<"resolve", "cache_check", "report">>
        /\ "report" \in S =>
              /\ environ.HDF5_DIR # None
              /\ \/ hit /\ "download" \notin S
                 \/ /\ "build" \in S
                    /\ Len(build_cmds) > 0 /\ cmd_idx > Len(build_cmds)
                    /\ \A i \in 1..Len(BuildProcs) : BuildProcs[i].rc = "zero"

C3_Witness ==
    /\ pc = "exited"
    /\ steps = <<"resolve", "cache_check", "download", "extract_targz", "build", "report">>

(* C4: version 1.10.2 on Windows with vs_version 14-64 and no install path *)
(* runs cache check, .zip download from the 1.10 tree, zip extraction,     *)
(* CMake configure with the 2015 Win64 generator and a blank install       *)
(* prefix, the cmake build, then the dll copy, without aborting when every *)
(* external tool succeeds.                                                 *)
C4_WindowsScenarioCompletes ==
    ( /\ platform = "win32"
      /\ environ.HDF5_VERSION = "1.10.2"
      /\ environ.HDF5_VSVERSION = "14-64"
      /\ environ.HDF5_DIR = None
      /\ pc = "exited"
      /\ exc \notin ExternalFailures )
    =>
    /\ exit_status = "0"
    /\ steps = <<"resolve", "cache_check", "download", "extract_zip", "build", "fixup">>
    /\ In110Tree(url) /\ EndsWith(url, ".zip")
    /\ Len(BuildProcs) = 2
    /\ \E i \in 1..Len(BuildProcs[1].args) - 1 :
          /\ BuildProcs[1].args[i] = "-G"
          /\ BuildProcs[1].args[i + 1] = "Visual Studio 14 2015 Win64"
    /\ " " \in Range(BuildProcs[1].args)

(* C5: on the autotools path with an install path, when every tool         *)
(* succeeds the commands run are, in order, chmod +x autogen.sh,           *)
(* ./autogen.sh, ./configure --prefix <install_path> (with                 *)
(* --enable-parallel iff MPI), make, make install, all from the unpacked   *)
(* source root, and the file listing follows.                              *)
C5_AutotoolsCommandOrder ==
    ( /\ ~StartsWith(platform, "win")
      /\ pc = "exited" /\ exit_status = "0"
      /\ "build" \in Range(steps) )
    =>
    /\ Commands(BuildProcs) =
          << "chmod +x autogen.sh",
             "./autogen.sh",
             "./configure --prefix " \o environ.HDF5_DIR
                 \o (IF environ.HDF5_MPI = "ON" THEN " --enable-parallel" ELSE ""),
             "make",
             "make install" >>
    /\ \A i \in 1..Len(BuildProcs) :
          BuildProcs[i].cwd = ExtractDir \o "/hdf5-" \o version
    /\ steps[Len(steps)] = "report"

(* C6 as stated: the 1.10 tree is chosen iff the version string begins     *)
(* with "1.10", the 1.8 tree otherwise; .zip iff the platform is in the    *)
(* Windows family, otherwise .tar.gz (1.10) or .gzip (1.8).                *)
C6_PrefixRouting ==
    url # None =>
        /\ In110Tree(url) <=> StartsWith(version, "1.10")
        /\ In18Tree(url) <=> ~StartsWith(version, "1.10")
        /\ EndsWith(url, ".zip") <=> StartsWith(platform, "win")
        /\ ~StartsWith(platform, "win") =>
              IF In110Tree(url) THEN EndsWith(url, ".tar.gz") ELSE EndsWith(url, ".gzip")

(* C6 as amended: the 1.10 tree is chosen iff the first two dot-separated  *)
(* components of the version are "1" and "10" (the version is "1.10" or    *)
(* begins with "1.10."), the 1.8 tree otherwise; extensions as stated.     *)
C6_ComponentRouting ==
    url # None =>
        LET is110 == version = "1.10" \/ StartsWith(version, "1.10.")
        IN  /\ In110Tree(url) <=> is110
            /\ In18Tree(url) <=> ~is110
            /\ EndsWith(url, "/src/hdf5-" \o version \o ".zip") <=> StartsWith(platform, "win")
            /\ ~StartsWith(platform, "win") =>
                  IF is110 THEN EndsWith(url, "/src/hdf5-" \o version \o ".tar.gz")
                  ELSE EndsWith(url, "/src/hdf5-" \o version \o ".gzip")

C6_Witness ==
    /\ url # None
    /\ version = "1.10.1"
    /\ platform = "linux"
    /\ In110Tree(url)

(* C7: a Visual-Studio token that is set but is no key of the table ends   *)
(* the run in a fatal abort during config resolution; cache check,         *)
(* download, extraction, build, fixup and report never run.                *)
C7_UnknownTokenAborts ==
    ( /\ environ.HDF5_VSVERSION # None
      /\ environ.HDF5_VSVERSION \notin {"9", "10", "14", "9-64", "10-64", "14-64"} )
    =>
    /\ Range(steps) \subseteq {"resolve"}
    /\ pc \in {"start", "makedirs", "generator", "exited"}
    /\ pc = "exited" => exit_status = "1" /\ exc = "KeyError"
    /\ procs = <<>> /\ tmp = NoTmp /\ url = None

C7_Witness ==
    /\ environ.HDF5_VSVERSION = "15"
    /\ pc = "exited"
    /\ exc = "KeyError"

(* C8: whenever build_hdf5 has been entered and left, normally or by a     *)
(* fatal abort, the working directory is the one current when it began.    *)
C8_CwdRestored ==
    (Range(steps) \cap ExtractSteps # {} /\ pc \in {"report", "exited"})
        => cwd = StartDir

(* C9: in every terminal state no temporary file or directory of the run   *)
(* still exists.                                                           *)
C9_NoTempAtExit ==
    pc = "exited" => \A k \in DOMAIN tmp : tmp[k] # "live"

C9_Witness ==
    /\ pc = "exited"
    /\ exc = "CalledProcessError"
    /\ \A k \in DOMAIN tmp : tmp[k] = "removed"

(* C10 as stated: a step of config resolution (a step after which the      *)
(* cache check has not started) changes nothing except possibly creating   *)
(* the install directory; in particular it starts no external process.     *)
C10_ConfigStep(mayRunSetup) ==
    "cache_check" \notin Range(steps') =>
        /\ fs'.files = fs.files
        /\ \/ fs'.dirs = fs.dirs
           \/ /\ install_path # None /\ install_path \notin fs.dirs
              /\ fs'.dirs = fs.dirs \cup {install_path}
        /\ cwd' = cwd /\ tmp' = tmp /\ url' = url
        /\ stderr' = stderr /\ stdout' = stdout
        /\ \/ procs' = procs
           \/ /\ mayRunSetup
              /\ vs_version = "9-64" /\ procs = <<>>
              /\ Len(procs') = 1 /\ procs'[1].args = SETUP_X64_BAT

C10_ConfigNoSideEffect == [][C10_ConfigStep(FALSE)]_vars

(* C10 as amended: config resolution changes nothing except possibly       *)
(* creating the install directory and, when the Visual-Studio token is     *)
(* "9-64", starting the x64 setup script once; it starts no other process. *)
C10_ConfigOnlySetupScript == [][C10_ConfigStep(TRUE)]_vars

C10_Witness ==
    /\ pc = "check_cache"
    /\ "cache_check" \notin Range(steps)
    /\ Len(procs) = 1
    /\ install_path \in fs.dirs

====
